---------------------------- MODULE Spec2Model ----------------------------
(***************************************************************************)
(* A TLA+ model of src/main.py: a scaled solar system (Body.step, the two  *)
(* orbit propagators, the mesh builders) driven by the per-frame update()  *)
(* callback and the input(key) handler of the camera rig.                  *)
(*                                                                         *)
(* Numbers.  The program computes with Python floats.  The model computes  *)
(* with integers in fixed units, chosen so that every quantity the inputs  *)
(* below can produce is a whole number of units:                           *)
(*   length      1 world unit        = LenU units                          *)
(*   velocity    1 world unit / s    = VelU units                          *)
(*   time.dt     1 tick              = 1/4 s                               *)
(*   cooldown    1 unit              = 1/20 s                              *)
(*   time_scale  1 day / s           = TSU units                           *)
(*   sim_jd, dt_days  1 day          = 4 * TSU units, counted from J2000.0 *)
(*   angles      1 turn (TAU, 360)   = AngU units                          *)
(* Floating-point rounding is not modelled.  math.sin and math.cos are     *)
(* evaluated on the angle rounded down to a quarter turn, where they are   *)
(* exactly 0, 1 or -1; on inputs that are multiples of a quarter turn the  *)
(* model's positions are the program's.                                    *)
(***************************************************************************)
EXTENDS Integers, Sequences, FiniteSets, TLC

(***************************************************************************)
(* Bounds of the model.                                                    *)
(***************************************************************************)
\* e / q presses away from TIME_SCALE_DEFAULT that the units keep exact
MaxScaleSteps == 1
\* update() frames in one behaviour
MaxFrames == 3

(***************************************************************************)
(* Units.                                                                  *)
(***************************************************************************)
RECURSIVE Pow(_, _)
Pow(b, n) == IF n = 0 THEN 1 ELSE b * Pow(b, n - 1)

VelU == 4 * 1000
LenU == 4 * VelU
TSU == Pow(20, MaxScaleSteps)
DayU == 4 * TSU
AngU == 24 * TSU
CoolU == 4 * 5

Abs(x) == IF x < 0 THEN -x ELSE x
Sgn(x) == IF x < 0 THEN -1 ELSE IF x > 0 THEN 1 ELSE 0
Min(a, b) == IF a < b THEN a ELSE b
Max(a, b) == IF a > b THEN a ELSE b

\* a / b on whole numbers, rounded toward zero (exact on the model's inputs)
Quot(a, b) == Sgn(a) * Sgn(b) * (Abs(a) \div Abs(b))

\* a * b / d without forming a * b
MulDiv(a, b, d) == a * (b \div d) + Quot(a * (b % d), d)

RECURSIVE ISqrtBin(_, _, _)
ISqrtBin(n, lo, hi) ==
    IF lo >= hi THEN lo
    ELSE LET mid == (lo + hi + 1) \div 2
         IN  IF mid * mid <= n THEN ISqrtBin(n, mid, hi) ELSE ISqrtBin(n, lo, mid - 1)

\* math.sqrt on whole numbers: the largest r with r * r <= n
ISqrt(n) == ISqrtBin(n, 0, Min(n, 46340))

(***************************************************************************)
(* math.cos, math.sin, Vec3.                                               *)
(***************************************************************************)
Quadrant(a) == ((a % AngU) * 4) \div AngU
Cos(a) == <<1, 0, -1, 0>>[Quadrant(a) + 1]
Sin(a) == <<0, 1, 0, -1>>[Quadrant(a) + 1]

Vec3(x, y, z) == <<x, y, z>>
VAdd(u, v) == <<u[1] + v[1], u[2] + v[2], u[3] + v[3]>>
VSub(u, v) == <<u[1] - v[1], u[2] - v[2], u[3] - v[3]>>
VScale(u, k) == <<u[1] * k, u[2] * k, u[3] * k>>
VZero == <<0, 0, 0>>

\* Vec3.length(); a vector along one axis needs no square root
Length(v) ==
    IF v[2] = 0 /\ v[3] = 0 THEN Abs(v[1])
    ELSE IF v[1] = 0 /\ v[3] = 0 THEN Abs(v[2])
    ELSE IF v[1] = 0 /\ v[2] = 0 THEN Abs(v[3])
    ELSE ISqrt(v[1] * v[1] + v[2] * v[2] + v[3] * v[3])

\* v.length() < m, decided without squaring coordinates larger than m
ShorterThan(v, m) ==
    /\ Abs(v[1]) < m
    /\ Abs(v[2]) < m
    /\ Abs(v[3]) < m
    /\ v[1] * v[1] + v[2] * v[2] < m * m - v[3] * v[3]

\* v.normalized() * m; the zero vector stays the zero vector
NormalizedTimes(v, m) ==
    LET n == Length(v)
    IN  IF n = 0 THEN VZero
        ELSE <<Quot(v[1] * m, n), Quot(v[2] * m, n), Quot(v[3] * m, n)>>

(***************************************************************************)
(* Program constants (lines 32-34 and 626-653), in the model's units.      *)
(***************************************************************************)
AU == 5 * LenU
DEG_PER_TURN == AngU
TAU == AngU
\* angle units in one radian: TAU / (2 * pi), with pi = 355 / 113
RadU == (AngU * 113) \div 710

(***************************************************************************)
(* Optional values: <<>> is None, <<v>> is the value v.                    *)
(***************************************************************************)
None == <<>>
Some(v) == <<v>>
IsNone(o) == Len(o) = 0
Val(o) == o[1]
\* Python truthiness of an optional number: neither None nor zero
Truthy(o) == Len(o) > 0 /\ o[1] # 0

(***************************************************************************)
(* Body (lines 37-106).  A body is a record; orbit_parent is the index of  *)
(* the parent in the list of bodies, 0 for None.  Eccentricities are in    *)
(* hundredths, element rates per day (the per-century rate / 36525),       *)
(* semi-major axes of element sets in thousandths of an AU.                *)
(***************************************************************************)
NewBody(bs, name, radius, visual_scale10, orbit_radius_mau, orbit_eccentricity, orbit_inclination_deg, orbit_period_days, rotation_period_days, orbit_parent, tidally_locked, elements) ==
    LET scale == Quot(radius * visual_scale10, 10)
        r0 == Quot(orbit_radius_mau * AU, 1000)
        min_orbit == bs[orbit_parent].scale_x + Quot(scale * 16, 10)
    IN  [name |-> name,
         scale_x |-> scale,
         orbit_parent |-> orbit_parent,
         orbit_radius |-> IF orbit_parent # 0 THEN Max(r0, min_orbit) ELSE r0,
         orbit_eccentricity |-> orbit_eccentricity,
         orbit_inclination_deg |-> orbit_inclination_deg,
         orbit_period_days |-> orbit_period_days,
         rotation_period_days |-> rotation_period_days,
         tidally_locked |-> tidally_locked,
         orbit_angle |-> 0,
         spin_angle |-> 0,
         rotation_y |-> 0,
         elements |-> elements,
         position |-> VZero]

\* one Newton step of Kepler's equation, E -= (E - e sin E - M) / (1 - e cos E)
NewtonStep(E, M, e) ==
    E - Quot((E - Quot(e * Sin(E) * RadU, 100) - M) * 100, 100 - e * Cos(E))

RECURSIVE Kepler(_, _, _, _)
Kepler(E, M, e, n) == IF n = 0 THEN E ELSE Kepler(NewtonStep(E, M, e), M, e, n - 1)

\* elements[k] + elements[k_dot] * T at Julian Date jd
ElemAt(base, rate, jd) == base + MulDiv(rate, jd, DayU)

\* the 3-1-3 rotation of (x_prime, y_prime), returned as Vec3(x, z, y)
PerifocalToWorld(x_prime, y_prime, Omega, w, i) ==
    LET cos_O == Cos(Omega)
        sin_O == Sin(Omega)
        cos_w == Cos(w)
        sin_w == Sin(w)
        cos_i == Cos(i)
        sin_i == Sin(i)
        x == (cos_O * cos_w - sin_O * sin_w * cos_i) * x_prime
             + (-cos_O * sin_w - sin_O * cos_w * cos_i) * y_prime
        y == (sin_O * cos_w + cos_O * sin_w * cos_i) * x_prime
             + (-sin_O * sin_w + cos_O * cos_w * cos_i) * y_prime
        z == (sin_w * sin_i) * x_prime + (cos_w * sin_i) * y_prime
    IN  Vec3(x, z, y)

\* the point of the element orbit at Julian Date jd with mean anomaly M
ElementPoint(elements, jd, M) ==
    LET a == Quot(ElemAt(elements.a, elements.a_dot, jd) * AU, 1000)
        e == ElemAt(elements.e, elements.e_dot, jd)
        i == ElemAt(elements.i, elements.i_dot, jd)
        Omega == ElemAt(elements.Omega, elements.Omega_dot, jd)
        w == ElemAt(elements.w, elements.w_dot, jd)
        E == Kepler(M, M, e, 6)
        x_prime == Quot(a * (100 * Cos(E) - e), 100)
        y_prime == Quot(a * ISqrt(10000 - e * e) * Sin(E), 100)
    IN  PerifocalToWorld(x_prime, y_prime, Omega, w, i)

\* the offset from the parent that update_orbit_from_elements computes
ElementOffset(elements, jd) ==
    ElementPoint(elements, jd, ElemAt(elements.M, elements.M_dot, jd) % TAU)

\* a propagator that moves the body from where it was
update_orbit_relative(bs, body, jd) ==
    [body EXCEPT !.position =
        VAdd(body.position, ElementOffset(Val(body.elements), jd))]

update_orbit_from_elements(bs, body, jd) ==
    [body EXCEPT !.position =
        VAdd(bs[body.orbit_parent].position, ElementOffset(Val(body.elements), jd))]

\* the advance without its factor TAU
AdvanceOrbitAngle_NoTau(orbit_angle, dt_days, period) ==
    orbit_angle + Quot(RadU * dt_days, period)

\* orbit_angle += TAU * (dt_days / orbit_period_days)
AdvanceOrbitAngle(orbit_angle, dt_days, period) ==
    orbit_angle + Quot(TAU * dt_days, period)

\* the offset from the parent that the fixed-period branch of step computes
FixedPeriodOffset(body, orbit_angle) ==
    LET mean_anomaly == orbit_angle % TAU
        e == body.orbit_eccentricity
        E == Kepler(mean_anomaly, mean_anomaly, e, 5)
        x == Quot(body.orbit_radius * (100 * Cos(E) - e), 100)
        z == Quot(body.orbit_radius * ISqrt(10000 - e * e) * Sin(E), 100)
        inc == body.orbit_inclination_deg
    IN  IF inc # 0 THEN Vec3(x, z * Sin(inc), z * Cos(inc)) ELSE Vec3(x, 0, z)

\* the rotation about Y that Entity.look_at gives for a target at offset v
Heading(v, old) ==
    IF v[1] = 0 /\ v[3] = 0 THEN old
    ELSE IF Abs(v[3]) >= Abs(v[1])
         THEN (IF v[3] > 0 THEN 0 ELSE TAU \div 2)
         ELSE (IF v[1] > 0 THEN TAU \div 4 ELSE 3 * (TAU \div 4))

\* lines 85-100 of Body.step: which propagator moves the body
UsesElements(body, jd) ==
    ~IsNone(body.elements) /\ body.orbit_parent # 0 /\ ~IsNone(jd)

UsesFixedPeriod(body, jd) ==
    ~UsesElements(body, jd) /\ body.orbit_parent # 0 /\ Truthy(body.orbit_period_days)

\* a dispatch with "if" for "elif": the element branch falls through
StepOrbit_FallThrough(bs, body, dt_days, jd) ==
    LET b1 == IF UsesElements(body, jd)
              THEN update_orbit_from_elements(bs, body, Val(jd)) ELSE body
    IN  IF body.orbit_parent # 0 /\ Truthy(body.orbit_period_days)
        THEN LET angle == AdvanceOrbitAngle(b1.orbit_angle, dt_days,
                                            Val(b1.orbit_period_days))
             IN  [b1 EXCEPT !.orbit_angle = angle,
                            !.position = VAdd(bs[b1.orbit_parent].position,
                                              FixedPeriodOffset(b1, angle))]
        ELSE b1

StepOrbit(bs, body, dt_days, jd) ==
    IF UsesElements(body, jd) THEN update_orbit_from_elements(bs, body, Val(jd))
    ELSE IF UsesFixedPeriod(body, jd)
    THEN LET angle == AdvanceOrbitAngle(body.orbit_angle, dt_days,
                                        Val(body.orbit_period_days))
         IN  [body EXCEPT !.orbit_angle = angle,
                          !.position = VAdd(bs[body.orbit_parent].position,
                                            FixedPeriodOffset(body, angle))]
    ELSE body

\* lines 102-106 of Body.step: tidal lock or spin
StepSpin(bs, body, dt_days) ==
    IF body.tidally_locked /\ body.orbit_parent # 0
    THEN [body EXCEPT !.rotation_y =
            Heading(VSub(bs[body.orbit_parent].position, body.position), body.rotation_y)]
    ELSE IF Truthy(body.rotation_period_days)
    THEN LET spin == body.spin_angle
                     + Quot(DEG_PER_TURN * dt_days, Val(body.rotation_period_days))
         IN  [body EXCEPT !.spin_angle = spin, !.rotation_y = spin]
    ELSE body

\* Body.step(dt_days, jd) of body number i of the list bs
step(bs, i, dt_days, jd) ==
    StepSpin(bs, StepOrbit(bs, bs[i], dt_days, jd), dt_days)

(***************************************************************************)
(* State.  The globals of lines 232 and 639-653, the list of bodies, the   *)
(* camera pivot, and what an observer of the run records: the number of    *)
(* frames, the last operation with its inputs (last), and the results of   *)
(* earlier calls (hist); for the frames hist counts the impact effects,    *)
(* the ticks of time.dt since the last one (since) and between the last    *)
(* two (gap), -1 where there is none.                                      *)
(***************************************************************************)
VARIABLES paused, time_scale, sim_jd, focus_target, focus_offset, home_follow,
          camera_pivot, velocity, explosion_cooldown, bodies, orbit_rings,
          planet_rings, frames, last, hist

vars == <<paused, time_scale, sim_jd, focus_target, focus_offset, home_follow,
          camera_pivot, velocity, explosion_cooldown, bodies, orbit_rings,
          planet_rings, frames, last, hist>>

TIME_SCALE_DEFAULT == 12 * TSU
\* julian_date(datetime(2026, 1, 16)) = 2461056.5 = J2000.0 + 9511.5 days
StartJd == 19023 * (DayU \div 2)
CameraStart == Vec3(0, 15 * LenU, -35 * LenU)

\* the module-level assignments of lines 232 and 639-653
Globals ==
    /\ paused = FALSE
    /\ time_scale = TIME_SCALE_DEFAULT
    /\ sim_jd = StartJd
    /\ focus_target = 0
    /\ focus_offset = VZero
    /\ home_follow = FALSE
    /\ camera_pivot = CameraStart
    /\ velocity = VZero
    /\ explosion_cooldown = 0
    /\ frames = 0

(***************************************************************************)
(* Body.step called directly: one body, with or without a parent, an       *)
(* element set, an orbit period, stepped with any dt_days and jd.          *)
(***************************************************************************)
\* calls of step in one behaviour
MaxCalls == 3

Days(n) == n * DayU

\* an element set on a circular orbit of 1 AU that turns a quarter in 3 days
TestElements ==
    [a |-> 1000, a_dot |-> 0, e |-> 0, e_dot |-> 0, i |-> 0, i_dot |-> 0,
     Omega |-> 0, Omega_dot |-> 0, w |-> 0, w_dot |-> 0,
     M |-> 0, M_dot |-> TAU \div 12]

StepDts == {Days(-3), 0, Days(3), Days(6)}
StepJds == {None, Some(Days(3)), Some(Days(6))}
StepPeriods == {None, Some(0), Some(Days(12)), Some(Days(-6))}

TestParent ==
    [NewBody(<<>>, "Parent", LenU, 10, 0, 0, 0, None, None, 0, FALSE, None)
        EXCEPT !.position = Vec3(3 * LenU, 0, LenU)]

StepInit ==
    /\ Globals
    /\ \E parent \in {0, 1}, elements \in {None, Some(TestElements)},
          period \in StepPeriods, rotation \in {None, Some(Days(12))} :
          bodies = <<TestParent,
                     NewBody(<<TestParent>>, "Body", LenU \div 4, 10, 100, 0, 0,
                             period, rotation, parent, IsNone(rotation), elements)>>
    /\ last = [op |-> "init"]
    /\ orbit_rings = <<>>
    /\ planet_rings = <<>>
    /\ hist = [calls |-> 0, by_elements |-> 0, seen |-> {}, trail |-> <<[cum |-> 0, angle |-> 0]>>]

\* whether a call is one the element set answers
ByElements(body, jd) == ~IsNone(body.elements) /\ ~IsNone(jd) /\ body.orbit_parent # 0

StepCall(dt_days, jd) ==
    /\ hist.calls < MaxCalls
    /\ LET pre == bodies[2]
           post == step(bodies, 2, dt_days, jd)
           cum == hist.trail[Len(hist.trail)].cum + dt_days
       IN  /\ bodies' = [bodies EXCEPT ![2] = post]
           /\ last' = [op |-> "step", dt_days |-> dt_days, jd |-> jd, pre |-> pre]
           /\ hist' = [calls |-> hist.calls + 1,
                       by_elements |-> hist.by_elements
                                       + (IF ByElements(pre, jd) THEN 1 ELSE 0),
                       seen |-> IF ByElements(pre, jd)
                                THEN hist.seen \cup {<<Val(jd), post.position>>}
                                ELSE hist.seen,
                       trail |-> IF ByElements(pre, jd)
                                 THEN <<[cum |-> 0, angle |-> post.orbit_angle]>>
                                 ELSE Append(hist.trail,
                                             [cum |-> cum, angle |-> post.orbit_angle])]
    /\ UNCHANGED <<paused, time_scale, sim_jd, focus_target, focus_offset, home_follow,
                   camera_pivot, velocity, explosion_cooldown, orbit_rings, planet_rings,
                   frames>>

StepNext == \E dt_days \in StepDts, jd \in StepJds : StepCall(dt_days, jd)

SpecStep == StepInit /\ [][StepNext]_vars

(***************************************************************************)
(* The mesh builders, as functions of their arguments.  A result is the    *)
(* exception the call ended in ("" for none), whether it returned None,    *)
(* and the vertices and triangle indices of the Mesh; uvs are left out.    *)
(* Ring and orbit meshes are in world units, the Earth mesh in MeshU.      *)
(***************************************************************************)
\* per unit of length of the Earth mesh: a pixel step times a thousandth
MAX_GREY == 255
MeshU == MAX_GREY * 1000

\* range(n)
Range(n) == 0 .. (n - 1)

\* the places of the list a loop over range(n) appends one item each to
Places(n) == 1 .. Max(n, 0)

Built(vertices, triangles) ==
    [raised |-> "", none |-> FALSE, vertices |-> vertices, triangles |-> triangles]

Raised(error) == [raised |-> error, none |-> FALSE, vertices |-> <<>>, triangles |-> <<>>]

\* lines 498-515
make_ring_mesh(inner_radius, outer_radius, segments) ==
    LET Vertex(k) ==
            LET i == k \div 4
                c == k % 4
                a == IF c \in {0, 1} THEN Quot(TAU * i, segments)
                     ELSE Quot(TAU * (i + 1), segments)
                r == IF c \in {0, 3} THEN inner_radius ELSE outer_radius
            IN  Vec3(Cos(a) * r, 0, Sin(a) * r)
        Index(k) == 4 * (k \div 6) + <<0, 1, 2, 0, 2, 3>>[(k % 6) + 1]
    IN  Built([k \in Places(4 * segments) |-> Vertex(k - 1)],
              [k \in Places(6 * segments) |-> Index(k - 1)])

\* lines 518-528
make_orbit_ellipse_mesh(semi_major, eccentricity, segments) ==
    LET a == semi_major
        e == eccentricity
        b == Quot(a * ISqrt(10000 - e * e), 100)
        Vertex(i) ==
            LET t == Quot(TAU * i, segments)
            IN  Vec3(a * Cos(t) - Quot(a * e, 100), 0, b * Sin(t))
    IN  IF e > 100 THEN Raised("ValueError")
        ELSE IF \E i \in Range(segments + 1) : segments = 0 THEN Raised("ZeroDivisionError")
        ELSE Built([k \in Places(segments + 1) |-> Vertex(k - 1)], <<>>)

\* lines 530-558
make_orbit_path_from_elements(elements, jd, segments) ==
    LET Vertex(s) == ElementPoint(elements, jd, Quot(TAU * s, segments))
    IN  IF \E s \in Range(segments + 1) : segments = 0 THEN Raised("ZeroDivisionError")
        ELSE Built([k \in Places(segments + 1) |-> Vertex(k - 1)], <<>>)

Displacement_Unsigned(height_value, height_scale) ==
    Quot(2 * height_value * height_scale, MAX_GREY)

\* displacement = (height_value - 0.5) * 2 * height_scale, height_value the
\* pixel before its division by 255.0
Displacement(height_value, height_scale) ==
    Quot((2 * height_value - MAX_GREY) * height_scale, MAX_GREY)

\* lines 109-148; image is None when the heightmap file is missing
build_earth_mesh(image, radius, height_scale, lon_steps, lat_steps) ==
    LET width == Val(image).width
        height == Val(image).height
        pixels == Val(image).pixels
        Vertex(k) ==
            LET y == k \div (lon_steps + 1)
                x == k % (lon_steps + 1)
                lat == Quot(TAU * (2 * y - lat_steps), 4 * lat_steps)
                py == ((lat_steps - y) * (height - 1)) \div lat_steps
                lon == Quot(TAU * (2 * x - lon_steps), 2 * lon_steps)
                px == (x * (width - 1)) \div lon_steps
                r == radius + Displacement(pixels[<<px, py>>], height_scale)
            IN  Vec3(r * Cos(lat) * Cos(lon), r * Sin(lat), r * Cos(lat) * Sin(lon))
        Index(k) ==
            LET cell == k \div 6
                i == (cell \div lon_steps) * (lon_steps + 1) + (cell % lon_steps)
                i2 == i + lon_steps + 1
            IN  <<i, i2, i + 1, i + 1, i2, i2 + 1>>[(k % 6) + 1]
    IN  IF IsNone(image)
        THEN [raised |-> "", none |-> TRUE, vertices |-> <<>>, triangles |-> <<>>]
        ELSE IF \E y \in Range(lat_steps + 1) :
                    lat_steps = 0 \/ \E x \in Range(lon_steps + 1) : lon_steps = 0
        THEN Raised("ZeroDivisionError")
        ELSE Built([k \in Places(Max(lat_steps + 1, 0) * Max(lon_steps + 1, 0)) |-> Vertex(k - 1)],
                   [k \in Places(6 * Max(lat_steps, 0) * Max(lon_steps, 0)) |-> Index(k - 1)])

(***************************************************************************)
(* The program: a reduced table of bodies (lines 263-496: the Sun, one     *)
(* planet with an element set, one tidally locked moon) and one asteroid   *)
(* (lines 596-609), the key handler input(key) and the frame callback      *)
(* update().  Mouse look, roll, labels, window and HUD state are left out; *)
(* the camera's orientation, which the mouse sets every frame, is an input *)
(* of the frame.                                                           *)
(***************************************************************************)
MOVE_SPEED == 12 * VelU
ACCELERATION == 10 * VelU
\* DAMPING = 2.8 per second, in tenths per tick of time.dt
DAMPING == 7
MAX_SPEED == 80 * VelU
CAMERA_RADIUS == LenU \div 20
\* COLLISION_SPEED_MIN = 2.5
COLLISION_SPEED_MIN == (5 * VelU) \div 2
\* explosion_cooldown = 0.6
COOLDOWN == (6 * CoolU) \div 10
\* AROSA_LAT = 46.7797248 and AROSA_LON = 9.6781356 degrees
AROSA_LAT == (TAU * 13) \div 100
AROSA_LON == (TAU * 27) \div 1000
\* altitude = 0.02 in set_view_from_earth and line 885
HOME_ALTITUDE == LenU \div 50

EarthElements ==
    [a |-> 1000, a_dot |-> 0, e |-> 0, e_dot |-> 0, i |-> 0, i_dot |-> 0,
     Omega |-> 0, Omega_dot |-> 0, w |-> 0, w_dot |-> 0,
     M |-> 0, M_dot |-> TAU \div 12]

sun == NewBody(<<>>, "Sun", (9 * LenU) \div 5, 10, 0, 0, 0, None, Some(Days(24)), 0, FALSE, None)

Planet ==
    NewBody(<<sun>>, "Earth", (3 * LenU) \div 10, 10, 1000, 0, 0,
            Some(Days(12)), Some(Days(12)), 1, FALSE, Some(EarthElements))

\* a moon of the planet as the loop of lines 481-496 builds it
Moon(period) ==
    NewBody(<<sun, Planet>>, "Moon", LenU \div 8, 6, 80, 0, 0,
            period, None, 2, TRUE, None)

\* the orbit periods a moon of the table may have; -6 days is retrograde
MoonPeriods == {Some(Days(12)), Some(Days(-6)), Some(0)}

\* planets[2] of the source, the body set_view_from_earth stands on
EarthIndex == 2

asteroids ==
    <<[position |-> Vec3((5 * AU) \div 2, 0, 0), scale_x |-> LenU \div 40]>>

\* segments of an orbit path; the builders' default is 128, and the model's
\* quarter-turn sines give the same four points for every multiple of 4
RingSegments == 2 * 4

\* the indices of the bodies that get an orbit ring (line 562)
Ringed(bs) == {k \in DOMAIN bs : k # 1 /\ bs[k].orbit_parent # 0 /\ bs[k].orbit_radius > 0}

RECURSIVE Sorted(_)
Sorted(S) == IF S = {} THEN <<>>
             ELSE LET k == CHOOSE x \in S : \A y \in S : x <= y
                  IN  <<k>> \o Sorted(S \ {k})

\* lines 560-573: orbit_rings as built at start-up
NewOrbitRings(bs) ==
    LET order == Sorted(Ringed(bs))
    IN  [n \in DOMAIN order |->
            LET body == bs[order[n]]
            IN  [body |-> order[n], parent |-> body.orbit_parent,
                 position |-> bs[body.orbit_parent].position, rotation_x |-> 0,
                 vertices |->
                    IF ~IsNone(body.elements)
                    THEN make_orbit_path_from_elements(Val(body.elements), StartJd,
                                                       RingSegments).vertices
                    ELSE make_orbit_ellipse_mesh(body.orbit_radius, body.orbit_eccentricity,
                                                 RingSegments).vertices]]

\* ring_defs, lines 576-593: one ringed planet, tilted by a twelfth of a turn
RingTilt == TAU \div 12
NewPlanetRings(bs) ==
    <<[planet |-> EarthIndex, position |-> bs[EarthIndex].position, rotation_x |-> -RingTilt]>>

\* rings that are left as the previous frame placed them
MovedOrbitRings_Kept(rings, bs, jd) == rings

\* lines 934-940: the orbit rings after the bodies bs were stepped to jd
MovedOrbitRings(rings, bs, jd) ==
    [n \in DOMAIN rings |->
        LET ring == rings[n]
            body == bs[ring.body]
        IN  IF ~IsNone(body.elements)
            THEN [ring EXCEPT !.position = bs[ring.parent].position,
                              !.vertices = make_orbit_path_from_elements(
                                               Val(body.elements), jd, RingSegments).vertices,
                              !.rotation_x = 0]
            ELSE [ring EXCEPT !.position = bs[ring.parent].position,
                              !.rotation_x = -body.orbit_inclination_deg]]

\* lines 942-944
MovedPlanetRings(rings, bs) ==
    [n \in DOMAIN rings |->
        [rings[n] EXCEPT !.position = bs[rings[n].planet].position,
                         !.rotation_x = -RingTilt]]

focus_targets == [key \in {"1", "4"} |-> IF key = "1" THEN 1 ELSE EarthIndex]

Init ==
    /\ Globals
    /\ \E period \in MoonPeriods : bodies = <<sun, Planet, Moon(period)>>
    /\ orbit_rings = NewOrbitRings(bodies)
    /\ planet_rings = NewPlanetRings(bodies)
    /\ last = [op |-> "init"]
    /\ hist = [explosions |-> 0, since |-> -1, gap |-> -1]

\* lines 676-687
focus_on(body) ==
    /\ focus_target' = body
    /\ focus_offset' = Vec3(0, bodies[body].scale_x * 6, -(bodies[body].scale_x * 12))
    /\ camera_pivot' = VAdd(bodies[body].position, focus_offset')
    /\ UNCHANGED home_follow

\* the unit normal of the surface point (lat, lon), turned by rot about Y
SurfaceNormal(lat, lon, rot) ==
    LET nx == Cos(lat) * Cos(lon)
        ny == Sin(lat)
        nz == Cos(lat) * Sin(lon)
    IN  Vec3(nx * Cos(rot) - nz * Sin(rot), ny, nx * Sin(rot) + nz * Cos(rot))

\* lines 690-709
set_view_from_earth(lat_deg, lon_deg) ==
    /\ focus_target' = 0
    /\ home_follow' = TRUE
    /\ camera_pivot' = VAdd(bodies[EarthIndex].position,
                            VScale(SurfaceNormal(lat_deg, lon_deg, 0),
                                   bodies[EarthIndex].scale_x + HOME_ALTITUDE))
    /\ UNCHANGED focus_offset

\* the keys of input(key) that touch the modelled state
Keys == {"space", "e", "q", "r", "h", "1", "4"}

\* time_scale *= 1.25 and time_scale /= 1.25
ScaleUp(ts) == Quot(ts * 5, 4)
ScaleDown(ts) == Quot(ts * 4, 5)

\* lines 712-799
Input(key) ==
    /\ key = "e" => time_scale < 12 * Pow(25, MaxScaleSteps)
    /\ key = "q" => time_scale > 12 * Pow(16, MaxScaleSteps)
    /\ paused' = IF key = "space" THEN ~paused ELSE paused
    /\ time_scale' = IF key = "e" THEN ScaleUp(time_scale)
                     ELSE IF key = "q" THEN ScaleDown(time_scale)
                     ELSE IF key = "r" THEN TIME_SCALE_DEFAULT
                     ELSE time_scale
    /\ IF key = "h" THEN set_view_from_earth(AROSA_LAT, AROSA_LON)
       ELSE IF key \in DOMAIN focus_targets THEN focus_on(focus_targets[key])
       ELSE UNCHANGED <<focus_target, focus_offset, home_follow, camera_pivot>>
    /\ last' = [op |-> "input", key |-> key]
    /\ UNCHANGED <<sim_jd, velocity, explosion_cooldown, bodies, orbit_rings, planet_rings,
                   frames, hist>>

\* velocity -= velocity * min(1.0, DAMPING * time.dt)
Damped(v, dt) ==
    LET f == Min(10, DAMPING * dt)
    IN  <<v[1] - Quot(v[1] * f, 10), v[2] - Quot(v[2] * f, 10), v[3] - Quot(v[3] * f, 10)>>

\* bodies + asteroids, as the collision loop reads them
Colliders(bs) ==
    [k \in 1..(Len(bs) + Len(asteroids)) |->
        IF k <= Len(bs) THEN [position |-> bs[k].position, scale_x |-> bs[k].scale_x]
        ELSE asteroids[k - Len(bs)]]

\* min_dist = body.scale_x * 0.97 + CAMERA_RADIUS
MinDist(body) == Quot(body.scale_x * 97, 100) + CAMERA_RADIUS

\* next_pos = body.position + to_cam.normalized() * min_dist
PushedOut(body, to_cam) == VAdd(body.position, NormalizedTimes(to_cam, MinDist(body)))

\* an effect on every collision, whatever the cooldown
Boom_Always(hit, cooldown) == hit

\* line 925: the impact effect fires on a collision while the cooldown is 0
Boom(hit, cooldown) == hit /\ cooldown = 0

\* lines 918-928, from collider k on; acc carries next_pos, velocity,
\* explosion_cooldown and what the loop did
RECURSIVE Collide(_, _, _)
Collide(cs, k, acc) ==
    IF k > Len(cs) THEN acc
    ELSE LET body == cs[k]
             to_cam == VSub(acc.next_pos, body.position)
             hit == ShorterThan(to_cam, MinDist(body)) /\ to_cam # VZero
             boom == Boom(hit, acc.cooldown)
         IN  Collide(cs, k + 1,
                 IF hit
                 THEN [next_pos |-> PushedOut(body, to_cam),
                       velocity |-> VZero,
                       cooldown |-> IF boom THEN COOLDOWN ELSE acc.cooldown,
                       explosions |-> acc.explosions + (IF boom THEN 1 ELSE 0),
                       hits |-> Append(acc.hits, [body |-> k, from |-> acc.next_pos])]
                 ELSE acc)

FreeFlight_NoCollision(pivot, vel, cooldown, focus, dt, bs) ==
    LET v1 == Damped(vel, dt)
    IN  [next_pos |-> VAdd(pivot, VScale(v1, dt)), velocity |-> v1, cooldown |-> cooldown,
         explosions |-> 0,
         hits |-> [tested |-> focus = 0 /\ Length(vel) >= COLLISION_SPEED_MIN,
                   tentative |-> VAdd(pivot, VScale(v1, dt)), speed |-> Length(vel),
                   list |-> <<>>]]

\* lines 911-929: damping, speed cap, integration and collision response
FreeFlight(pivot, vel, cooldown, focus, dt, bs) ==
    LET speed == Length(vel)
        v1 == Damped(vel, dt)
        v2 == IF speed > MAX_SPEED THEN NormalizedTimes(v1, MAX_SPEED) ELSE v1
        start == [next_pos |-> VAdd(pivot, VScale(v2, dt)), velocity |-> v2,
                  cooldown |-> cooldown, explosions |-> 0, hits |-> <<>>]
        tested == focus = 0 /\ speed >= COLLISION_SPEED_MIN
    IN  IF speed > 0
        THEN [Collide(Colliders(bs), IF tested THEN 1 ELSE Len(Colliders(bs)) + 1, start)
                EXCEPT !.hits = [tested |-> tested, tentative |-> start.next_pos,
                                 speed |-> speed, list |-> @]]
        ELSE [next_pos |-> pivot, velocity |-> vel, cooldown |-> cooldown,
              explosions |-> 0,
              hits |-> [tested |-> FALSE, tentative |-> pivot, speed |-> speed,
                        list |-> <<>>]]

\* every body stepped against the list as the previous frame left it
StepBodies_FromOld(bs, i, dt_days, jd) ==
    [k \in DOMAIN bs |-> IF k >= i THEN step(bs, k, dt_days, jd) ELSE bs[k]]

\* lines 931-932: every body of the list stepped in order, from body i on
RECURSIVE StepBodies(_, _, _, _)
StepBodies(bs, i, dt_days, jd) ==
    IF i > Len(bs) THEN bs
    ELSE StepBodies([bs EXCEPT ![i] = step(bs, i, dt_days, jd)], i + 1, dt_days, jd)

DtDays_IgnoresPause(is_paused, dt, scale) == dt * scale
\* a pause that falls back to real time, 1 day per second
DtDays_PauseAsRealTime(is_paused, dt, scale) == IF is_paused THEN dt * TSU ELSE dt * scale
\* dt_days of lines 828-831
DtDays(is_paused, dt, scale) == IF is_paused THEN 0 ELSE dt * scale

\* lines 866-885: where focus lock and surface follow put the pivot
Overridden(pivot, focus, offset, follow, bs) ==
    LET p1 == IF focus # 0 THEN VAdd(bs[focus].position, offset) ELSE pivot
        earth == bs[EarthIndex]
    IN  IF follow
        THEN VAdd(earth.position,
                  VScale(SurfaceNormal(AROSA_LAT, AROSA_LON, earth.rotation_y),
                         earth.scale_x + HOME_ALTITUDE))
        ELSE p1

\* lines 892-895: the modes after the directional input
FocusAfterMove(move_dir, focus) == IF Length(move_dir) > 0 THEN 0 ELSE focus
FollowAfterMove_Kept(move_dir, follow) == follow
FollowAfterMove(move_dir, follow) == IF Length(move_dir) > 0 THEN FALSE ELSE follow

\* lines 896-901: thrust along the camera's axes
Thrust(move_dir, basis, shift, dt) ==
    LET dir == VAdd(VAdd(VScale(basis.right, move_dir[1]), VScale(basis.up, move_dir[2])),
                    VScale(basis.forward, move_dir[3]))
        boost == IF shift THEN 2 ELSE 1
    IN  VScale(NormalizedTimes(dir, 1), Quot(ACCELERATION * boost * dt, 4))

\* what a frame may be given: time.dt in ticks, held_keys, the camera's axes
Dts == {0, 1, 2}
MoveDirs == {Vec3(0, 0, 0), Vec3(0, 0, 1), Vec3(0, 0, -1), Vec3(0, 1, 0)}
Bases == {[right |-> Vec3(1, 0, 0), up |-> Vec3(0, 1, 0), forward |-> Vec3(0, 0, 1)],
          [right |-> Vec3(0, 0, -1), up |-> Vec3(0, 1, 0), forward |-> Vec3(1, 0, 0)]}

\* lines 825-944; the labels and the HUD text of lines 946-970 are left out
Update(dt, move_dir, basis, shift) ==
    /\ frames < MaxFrames
    /\ LET dt_days == DtDays(paused, dt, time_scale)
           jd == sim_jd + dt_days
           pivot == Overridden(camera_pivot, focus_target, focus_offset, home_follow, bodies)
           focus == FocusAfterMove(move_dir, focus_target)
           follow == FollowAfterMove(move_dir, home_follow)
           vel == IF Length(move_dir) > 0
                  THEN VAdd(velocity, Thrust(move_dir, basis, shift, dt)) ELSE velocity
           cooldown == Max(0, explosion_cooldown - dt * (CoolU \div 4))
           ff == FreeFlight(pivot, vel, cooldown, focus, dt, bodies)
           stepped == StepBodies(bodies, 1, dt_days, Some(jd))
       IN  /\ sim_jd' = jd
           /\ focus_target' = focus
           /\ home_follow' = follow
           /\ velocity' = ff.velocity
           /\ explosion_cooldown' = ff.cooldown
           /\ camera_pivot' = ff.next_pos
           /\ bodies' = stepped
           /\ orbit_rings' = MovedOrbitRings(orbit_rings, stepped, jd)
           /\ planet_rings' = MovedPlanetRings(planet_rings, stepped)
           /\ last' = [op |-> "update", dt |-> dt, move_dir |-> move_dir,
                       sim_jd |-> sim_jd,
                       focus_target |-> focus_target, home_follow |-> home_follow,
                       colliders |-> Colliders(bodies),
                       cooldown |-> cooldown,
                       explosions |-> ff.explosions, flight |-> ff.hits]
           /\ hist' = [explosions |-> hist.explosions + ff.explosions,
                       since |-> IF ff.explosions > 0 THEN 0
                                 ELSE IF hist.since < 0 THEN -1 ELSE hist.since + dt,
                       gap |-> IF ff.explosions > 0 /\ hist.since >= 0
                               THEN hist.since + dt ELSE hist.gap]
    /\ frames' = frames + 1
    /\ UNCHANGED <<paused, time_scale, focus_offset>>

\* the program under every key and every frame input
Next ==
    \/ \E key \in Keys : Input(key)
    \/ \E dt \in Dts, move_dir \in MoveDirs, basis \in Bases, shift \in BOOLEAN :
          Update(dt, move_dir, basis, shift)

Spec == Init /\ [][Next]_vars

(***************************************************************************)
(* The same program in two smaller environments; every behaviour of either *)
(* is a behaviour of Spec.  SpecClock: the keys of the simulation clock    *)
(* and frames without directional input.  SpecCamera: the keys of the      *)
(* camera modes and frames that fly the camera along its forward axis, at  *)
(* the default time scale.                                                 *)
(***************************************************************************)
ClockKeys == {"space", "e", "q", "r"}

ClockNext ==
    \/ \E key \in ClockKeys : Input(key)
    \/ \E dt \in Dts, basis \in Bases :
          /\ basis.forward = Vec3(0, 0, 1)
          /\ Update(dt, Vec3(0, 0, 0), basis, FALSE)

SpecClock == Init /\ [][ClockNext]_vars

CameraKeys == {"h", "1", "4"}

CameraInit ==
    /\ Init
    /\ bodies[Len(bodies)].orbit_period_days = Some(Days(12))

CameraNext ==
    \/ \E key \in CameraKeys : Input(key)
    \/ \E dt \in Dts \ {0}, move_dir \in MoveDirs, basis \in Bases, shift \in BOOLEAN :
          /\ basis.forward = Vec3(1, 0, 0)
          /\ move_dir[2] = 0
          /\ Update(dt, move_dir, basis, shift)

SpecCamera == CameraInit /\ [][CameraNext]_vars

(***************************************************************************)
(* The mesh builders called on their own.                                  *)
(***************************************************************************)
\* the arguments the builders are given
Counts == {-1, 0, 1, 2, 4}
Radii == {0, LenU, 2 * LenU}
Eccentricities == {0, 60}
UniformImage(grey) ==
    [width |-> 2, height |-> 2, pixels |-> [p \in (0 .. 1) \X (0 .. 1) |-> grey]]
BandedImage ==
    [width |-> 2, height |-> 2,
     pixels |-> [p \in (0 .. 1) \X (0 .. 1) |-> IF p[2] = 0 THEN MAX_GREY ELSE 0]]
Images == {None, Some(BandedImage)} \cup {Some(UniformImage(grey)) : grey \in 0 .. MAX_GREY}
\* height_scale = 0.012 and 0.1
HeightScales == {(12 * MeshU) \div 1000, MeshU \div 10}

\* a call of one builder with its arguments, yet to be made
MeshCalls ==
    [builder : {"make_ring_mesh"}, inner_radius : Radii, outer_radius : Radii,
     segments : Counts]
    \cup [builder : {"make_orbit_ellipse_mesh"}, semi_major : Radii,
          eccentricity : Eccentricities, segments : Counts]
    \cup [builder : {"make_orbit_path_from_elements"},
          elements : {[EarthElements EXCEPT !.a = a] : a \in {0, 1000}},
          jd : {StartJd, StartJd + Days(3)}, segments : Counts]
    \cup [builder : {"build_earth_mesh"}, image : Images, radius : {0, MeshU},
          height_scale : HeightScales, lon_steps : Counts, lat_steps : Counts]

MeshInit ==
    /\ Globals
    /\ bodies = <<sun, Planet, Moon(Some(Days(12)))>>
    /\ orbit_rings = NewOrbitRings(bodies)
    /\ planet_rings = NewPlanetRings(bodies)
    /\ hist = [explosions |-> 0, since |-> -1, gap |-> -1]
    /\ \E call \in MeshCalls : last = [op |-> "call", args |-> call]

MakeRingMesh ==
    /\ last.op = "call"
    /\ last.args.builder = "make_ring_mesh"
    /\ LET args == last.args
       IN  last' = [op |-> "mesh", args |-> args, counts |-> {args.segments},
                    radii |-> {args.inner_radius, args.outer_radius},
                    mesh |-> make_ring_mesh(args.inner_radius, args.outer_radius,
                                            args.segments)]
    /\ UNCHANGED <<paused, time_scale, sim_jd, focus_target, focus_offset, home_follow,
                   camera_pivot, velocity, explosion_cooldown, bodies, orbit_rings,
                   planet_rings, frames, hist>>

MakeOrbitEllipseMesh ==
    /\ last.op = "call"
    /\ last.args.builder = "make_orbit_ellipse_mesh"
    /\ LET args == last.args
       IN  last' = [op |-> "mesh", args |-> args, counts |-> {args.segments},
                    radii |-> {args.semi_major},
                    mesh |-> make_orbit_ellipse_mesh(args.semi_major, args.eccentricity,
                                                     args.segments)]
    /\ UNCHANGED <<paused, time_scale, sim_jd, focus_target, focus_offset, home_follow,
                   camera_pivot, velocity, explosion_cooldown, bodies, orbit_rings,
                   planet_rings, frames, hist>>

MakeOrbitPathFromElements ==
    /\ last.op = "call"
    /\ last.args.builder = "make_orbit_path_from_elements"
    /\ LET args == last.args
       IN  last' = [op |-> "mesh", args |-> args, counts |-> {args.segments},
                    radii |-> {args.elements.a},
                    mesh |-> make_orbit_path_from_elements(args.elements, args.jd,
                                                           args.segments)]
    /\ UNCHANGED <<paused, time_scale, sim_jd, focus_target, focus_offset, home_follow,
                   camera_pivot, velocity, explosion_cooldown, bodies, orbit_rings,
                   planet_rings, frames, hist>>

BuildEarthMesh ==
    /\ last.op = "call"
    /\ last.args.builder = "build_earth_mesh"
    /\ LET args == last.args
       IN  last' = [op |-> "mesh", args |-> args,
                    counts |-> {args.lon_steps, args.lat_steps}, radii |-> {args.radius},
                    mesh |-> build_earth_mesh(args.image, args.radius, args.height_scale,
                                              args.lon_steps, args.lat_steps)]
    /\ UNCHANGED <<paused, time_scale, sim_jd, focus_target, focus_offset, home_follow,
                   camera_pivot, velocity, explosion_cooldown, bodies, orbit_rings,
                   planet_rings, frames, hist>>

MeshNext ==
    \/ MakeRingMesh
    \/ MakeOrbitEllipseMesh
    \/ MakeOrbitPathFromElements
    \/ BuildEarthMesh

SpecMesh == MeshInit /\ [][MeshNext]_vars

(***************************************************************************)
(* The calendar conversions julian_date and jd_to_datetime.  A Julian Date *)
(* is too large for one number of sub-second units, so here it is a whole  *)
(* number of days and a fraction of a day in ticks of 1/SubSec second; a   *)
(* datetime is its fields.  The float constants 365.25, 30.6001, 122.1,    *)
(* 1867216.25 and 36524.25 are the exact ratios of whole numbers below.    *)
(***************************************************************************)
\* ticks per second of the fraction of a Julian Date
SubSec == 2 * 5
SecondsPerDay == 24 * 3600
TicksPerDay == SecondsPerDay * SubSec

\* a Julian Date from days and ticks, the ticks carried into the days
Jd(whole, ticks) ==
    [whole |-> whole + (ticks \div TicksPerDay), frac |-> ticks % TicksPerDay]

\* lines 169-190
jd_to_datetime(jd) ==
    LET shifted == Jd(jd.whole, jd.frac + TicksPerDay \div 2)
        Z == shifted.whole
        F == shifted.frac
        alpha == (4 * Z - 7468865) \div 146097
        A == IF Z >= 2299161 THEN Z + 1 + alpha - (alpha \div 4) ELSE Z
        B == A + 1524
        C == (20 * B - 2442) \div 7305
        D == (1461 * C) \div 4
        E == ((B - D) * 10000) \div 306001
        day_int == B - D - ((306001 * E) \div 10000)
        month == IF E < 14 THEN E - 1 ELSE E - 13
        year == IF month > 2 THEN C - 4716 ELSE C - 4715
        seconds == F \div SubSec
    IN  [year |-> year, month |-> month, day |-> day_int,
         hour |-> seconds \div 3600, minute |-> (seconds % 3600) \div 60,
         second |-> seconds % 60, microsecond |-> 0]

\* the conversion without "if month <= 2: year -= 1; month += 12"
julian_date_NoMonthShift(dt) ==
    LET A == dt.year \div 100
        B == 2 - A + (A \div 4)
        hour == ((dt.hour * 60 + dt.minute) * 60 + dt.second) * SubSec
    IN  Jd(((1461 * (dt.year + 4716)) \div 4) + ((306001 * (dt.month + 1)) \div 10000)
               + dt.day + B - 1525,
           TicksPerDay \div 2 + hour)

\* lines 151-166
julian_date(dt) ==
    LET year == IF dt.month <= 2 THEN dt.year - 1 ELSE dt.year
        month == IF dt.month <= 2 THEN dt.month + 12 ELSE dt.month
        A == year \div 100
        B == 2 - A + (A \div 4)
        hour == ((dt.hour * 60 + dt.minute) * 60 + dt.second) * SubSec
                + (dt.microsecond * SubSec) \div 1000000
    IN  Jd(((1461 * (year + 4716)) \div 4) + ((306001 * (month + 1)) \div 10000)
               + dt.day + B - 1525,
           TicksPerDay \div 2 + hour)

\* jd - other in ticks
JdDiff(jd, other) == (jd.whole - other.whole) * TicksPerDay + (jd.frac - other.frac)

\* the Julian Dates converted: noon-to-noon days from 1582-10-15, around
\* 1900-01-01, through the leap year 2000 and around 2100-01-01, at times of
\* day on and next to whole seconds, midnight and noon
EpochDays == {2299160, 2415020, 2451544, 2488069}
DayOffsets == 0 .. 400
DayTicks ==
    {0, 1, SubSec - 1, SubSec, TicksPerDay \div 2 - 1, TicksPerDay \div 2,
     TicksPerDay \div 2 + SubSec - 1, TicksPerDay - 1}

JdInit ==
    /\ Globals
    /\ bodies = <<sun, Planet, Moon(Some(Days(12)))>>
    /\ orbit_rings = NewOrbitRings(bodies)
    /\ planet_rings = NewPlanetRings(bodies)
    /\ hist = [explosions |-> 0, since |-> -1, gap |-> -1]
    /\ \E epoch \in EpochDays, offset \in DayOffsets, ticks \in DayTicks :
          /\ epoch = 2299160 => (offset > 0 \/ ticks >= TicksPerDay \div 2)
          /\ last = [op |-> "jd", jd |-> Jd(epoch + offset, ticks)]

\* sim_dt = jd_to_datetime(sim_jd), as the HUD of line 965 asks
ToDatetime ==
    /\ last.op = "jd"
    /\ last' = [op |-> "datetime", jd |-> last.jd, dt |-> jd_to_datetime(last.jd)]
    /\ UNCHANGED <<paused, time_scale, sim_jd, focus_target, focus_offset, home_follow,
                   camera_pivot, velocity, explosion_cooldown, bodies, orbit_rings,
                   planet_rings, frames, hist>>

\* julian_date of that datetime
ToJulianDate ==
    /\ last.op = "datetime"
    /\ last' = [op |-> "back", jd |-> last.jd, dt |-> last.dt, back |-> julian_date(last.dt)]
    /\ UNCHANGED <<paused, time_scale, sim_jd, focus_target, focus_offset, home_follow,
                   camera_pivot, velocity, explosion_cooldown, bodies, orbit_rings,
                   planet_rings, frames, hist>>

JdNext ==
    \/ ToDatetime
    \/ ToJulianDate

SpecJd == JdInit /\ [][JdNext]_vars

(***************************************************************************)
(* Claims about Body.step, checked under SpecStep.                         *)
(***************************************************************************)
\* the radius of the circular orbit of TestElements
TestElementsRadius == Quot(TestElements.a * AU, 1000)

\* C4: a body with an element set, a parent and a supplied jd is moved by the
\* element set alone (it ends on the element orbit, orbit_angle untouched);
\* otherwise a body with a parent and a period is moved by the fixed-period
\* branch (orbit_angle advances by TAU * dt / period, it ends on the circle of
\* orbit_radius); any other body keeps its position.
C4_Dispatch ==
    last.op = "step" =>
        LET pre == last.pre
            post == bodies[2]
            d == Length(VSub(post.position, bodies[1].position))
        IN  IF ~IsNone(pre.elements) /\ pre.orbit_parent # 0 /\ ~IsNone(last.jd)
            THEN post.orbit_angle = pre.orbit_angle /\ d = TestElementsRadius
            ELSE IF pre.orbit_parent # 0 /\ Truthy(pre.orbit_period_days)
            THEN /\ post.orbit_angle - pre.orbit_angle
                      = Quot(TAU * last.dt_days, Val(pre.orbit_period_days))
                 /\ d = pre.orbit_radius
            ELSE post.position = pre.position /\ post.orbit_angle = pre.orbit_angle

\* a body with an element set and a period, stepped without jd, has fallen
\* back to the fixed-period branch and moved
C4_Witness ==
    /\ last.op = "step"
    /\ ~IsNone(last.pre.elements)
    /\ IsNone(last.jd)
    /\ last.pre.orbit_parent # 0
    /\ Truthy(last.pre.orbit_period_days)
    /\ bodies[2].position # last.pre.position
    /\ bodies[2].orbit_angle # last.pre.orbit_angle

\* C5: every element-set call with the same jd has written the same position,
\* whatever calls came between, and such a call changes neither orbit_angle
\* nor any field of the body's configuration.
C5_Stateless ==
    /\ \A p \in hist.seen : \A q \in hist.seen : p[1] = q[1] => p[2] = q[2]
    /\ (last.op = "step" /\ ByElements(last.pre, last.jd)) =>
          [bodies[2] EXCEPT !.position = VZero, !.spin_angle = 0, !.rotation_y = 0]
          = [last.pre EXCEPT !.position = VZero, !.spin_angle = 0, !.rotation_y = 0]

\* three element-set calls over two Julian Dates: one date was asked twice,
\* and the body stood elsewhere before the last call
C5_Witness ==
    /\ hist.by_elements = 3
    /\ Cardinality(hist.seen) = 2
    /\ last.pre.position # bodies[2].position

\* C6: over any run of fixed-period steps whose dt_days add up to one orbit
\* period, orbit_angle modulo TAU returns to the value it had before the run.
C6_ClosedOrbit ==
    (bodies[2].orbit_parent # 0 /\ Truthy(bodies[2].orbit_period_days)) =>
        \A i \in 1..Len(hist.trail) : \A j \in i..Len(hist.trail) :
            hist.trail[j].cum - hist.trail[i].cum = Val(bodies[2].orbit_period_days)
                => hist.trail[j].angle % TAU = hist.trail[i].angle % TAU

\* a run of three steps that adds up to one period and has turned the angle
C6_Witness ==
    /\ bodies[2].orbit_parent # 0
    /\ Truthy(bodies[2].orbit_period_days)
    /\ Len(hist.trail) = 4
    /\ hist.trail[4].cum - hist.trail[1].cum = Val(bodies[2].orbit_period_days)
    /\ hist.trail[4].angle # hist.trail[1].angle
    /\ hist.trail[2].angle % TAU # hist.trail[1].angle % TAU

(***************************************************************************)
(* Claims about the camera modes, checked under SpecCamera.                *)
(***************************************************************************)
\* C1: focus lock (focus_target set) and surface follow (home_follow) are
\* never active together.
C1_Exclusive == ~(focus_target # 0 /\ home_follow)

\* C2: a frame with a non-zero directional input ends with focus_target None
\* and home_follow False whatever they were; a frame with a zero directional
\* input leaves both as they were.
C2_DirectionalInput ==
    last.op = "update" =>
        IF last.move_dir # VZero
        THEN focus_target = 0 /\ ~home_follow
        ELSE focus_target = last.focus_target /\ home_follow = last.home_follow

\* a frame with directional input that started in surface follow, after a
\* frame without directional input that kept it
C2_Witness ==
    /\ last.op = "update"
    /\ last.move_dir # VZero
    /\ last.home_follow
    /\ frames >= 2
    /\ ~home_follow

\* the tentative or corrected position p lies inside the collision sphere of
\* collider c, away from its centre
Penetrates(p, c) ==
    /\ VSub(p, c.position) # VZero
    /\ ShorterThan(VSub(p, c.position), Quot(c.scale_x * 97, 100) + CAMERA_RADIUS)

\* the colliders the tentative position of the last frame penetrated
Penetrated == {k \in DOMAIN last.colliders : Penetrates(last.flight.tentative, last.colliders[k])}

\* the first of them in the order of the loop
FirstPenetrated == CHOOSE k \in Penetrated : \A j \in Penetrated : k <= j

\* C7 as stated: after a collision-tested frame the committed position lies at
\* distance min_dist from every collider the tentative position penetrated,
\* along the direction from that collider to the tentative position, and
\* velocity is zero.
C7_EveryPenetrated ==
    (last.op = "update" /\ last.flight.tested) =>
        \A k \in Penetrated :
            /\ velocity = VZero
            /\ camera_pivot = PushedOut(last.colliders[k],
                                        VSub(last.flight.tentative, last.colliders[k].position))

\* C7 amended: after a collision-tested frame whose tentative position
\* penetrated some collider, velocity is zero and the committed position lies
\* at distance min_dist from the last collider the loop corrected against,
\* along the direction from that collider to the position the loop held when
\* it reached it; it is the first penetrated collider's corrected position
\* along the direction to the tentative position whenever that corrected
\* position penetrates no later collider.
C7_Sequential ==
    (last.op = "update" /\ last.flight.tested /\ Penetrated # {}) =>
        LET cs == last.colliders
            hits == last.flight.list
            final == hits[Len(hits)]
            first == cs[FirstPenetrated]
            out == PushedOut(first, VSub(last.flight.tentative, first.position))
        IN  /\ velocity = VZero
            /\ Len(hits) >= 1
            /\ hits[1].body = FirstPenetrated
            /\ hits[1].from = last.flight.tentative
            /\ camera_pivot = PushedOut(cs[final.body], VSub(final.from, cs[final.body].position))
            /\ Length(VSub(camera_pivot, cs[final.body].position))
                  = Quot(cs[final.body].scale_x * 97, 100) + CAMERA_RADIUS
            /\ (\A j \in DOMAIN cs : j > FirstPenetrated => ~Penetrates(out, cs[j]))
                  => camera_pivot = out

\* a frame that corrected the camera against two colliders in turn and left
\* it inside the collision sphere of the first
C7_Witness ==
    /\ last.op = "update"
    /\ last.flight.tested
    /\ Len(last.flight.list) = 2
    /\ velocity = VZero
    /\ Penetrates(camera_pivot, last.colliders[last.flight.list[1].body])

(***************************************************************************)
(* Claims about the simulation clock, checked under SpecClock.             *)
(***************************************************************************)
\* C3: a paused frame leaves sim_jd alone, an unpaused frame adds exactly
\* time.dt * time_scale to it, so it never decreases; time_scale is positive
\* in every state.
C3_Clock ==
    /\ time_scale > 0
    /\ last.op = "update" =>
          /\ sim_jd = last.sim_jd + (IF paused THEN 0 ELSE last.dt * time_scale)
          /\ sim_jd >= last.sim_jd

\* an unpaused frame at a changed time scale has advanced the clock, after
\* an earlier frame had advanced it
C3_Witness ==
    /\ last.op = "update"
    /\ ~paused
    /\ last.dt > 0
    /\ time_scale # TIME_SCALE_DEFAULT
    /\ sim_jd = last.sim_jd + last.dt * time_scale
    /\ last.sim_jd # StartJd

\* C8: a body whose orbit period is zero or negative (and that no element
\* set moves) is never propagated: it keeps the orbit_angle and the position
\* it was constructed with through every frame.
C8_NeverPropagated ==
    \A k \in DOMAIN bodies :
        (/\ IsNone(bodies[k].elements)
         /\ ~IsNone(bodies[k].orbit_period_days)
         /\ Val(bodies[k].orbit_period_days) <= 0)
            => bodies[k].orbit_angle = 0 /\ bodies[k].position = VZero

(***************************************************************************)
(* Claims about the mesh builders, checked under SpecMesh.                 *)
(***************************************************************************)
\* C9: a builder called with a zero or negative count, or with a zero
\* radius, ends in no error.
C9_NeverRaises ==
    (/\ last.op = "mesh"
     /\ \/ \E n \in last.counts : n <= 0
        \/ 0 \in last.radii)
        => last.mesh.raised = ""

\* the Earth mesh of the last call was built from the uniform image of one
\* grey value with a positive height_scale
OfUniformImage ==
    /\ last.op = "mesh"
    /\ last.args.builder = "build_earth_mesh"
    /\ \E grey \in 0 .. MAX_GREY : last.args.image = Some(UniformImage(grey))
    /\ last.args.height_scale > 0
    /\ last.mesh.raised = ""

\* C10 as stated: every vertex built from a uniform image lies at distance
\* exactly radius from the centre.
C10_OnSphere ==
    OfUniformImage =>
        \A k \in DOMAIN last.mesh.vertices : Length(last.mesh.vertices[k]) = last.args.radius

\* C10 amended: every vertex built from the uniform image of grey value s
\* lies at the same distance |radius + (s/255 - 0.5) * 2 * height_scale| from
\* the centre; the displacement is never zero and never more than
\* height_scale, so for radius >= height_scale no vertex lies at distance
\* exactly radius.
C10_UniformShell ==
    OfUniformImage =>
        LET s == Val(last.args.image).pixels[<<0, 0>>]
            shift == ((2 * s - MAX_GREY) * last.args.height_scale) \div MAX_GREY
        IN  /\ (2 * s - MAX_GREY) * last.args.height_scale = shift * MAX_GREY
            /\ shift # 0
            /\ Abs(shift) <= last.args.height_scale
            /\ \A k \in DOMAIN last.mesh.vertices :
                  /\ Length(last.mesh.vertices[k]) = Abs(last.args.radius + shift)
                  /\ last.args.radius >= last.args.height_scale
                        => Length(last.mesh.vertices[k]) # last.args.radius

\* a sphere of radius 1 built from the mid-grey image 128: its vertices are
\* there and lie off the sphere of radius 1
C10_Witness ==
    /\ OfUniformImage
    /\ last.args.image = Some(UniformImage(128))
    /\ last.args.radius = MeshU
    /\ Len(last.mesh.vertices) = 15
    /\ \A k \in DOMAIN last.mesh.vertices : Length(last.mesh.vertices[k]) > MeshU

(***************************************************************************)
(* Claims about the calendar conversions, checked under SpecJd.            *)
(***************************************************************************)
\* C11 as stated: julian_date(jd_to_datetime(jd)) differs from jd by less
\* than 1e-5 days.
C11_WithinHundredThousandth ==
    last.op = "back" => Abs(JdDiff(last.jd, last.back)) * 100000 < TicksPerDay

\* C11 amended: julian_date(jd_to_datetime(jd)) is the start of the second
\* that jd falls in: it is never later than jd and less than one second
\* (1/86400 day) earlier, and the datetime between them is a valid civil
\* date and time.
C11_WithinOneSecond ==
    /\ last.op = "back" =>
          /\ JdDiff(last.jd, last.back) >= 0
          /\ JdDiff(last.jd, last.back) < SubSec
          /\ JdDiff(last.jd, last.back) = last.jd.frac % SubSec
    /\ last.op \in {"datetime", "back"} =>
          /\ last.dt.month \in 1 .. 12
          /\ last.dt.day \in 1 .. 31
          /\ last.dt.hour \in 0 .. 23
          /\ last.dt.minute \in 0 .. 59
          /\ last.dt.second \in 0 .. 59

\* 29 February 2000, 23:59:59.9: the round trip has lost nine tenths of a
\* second, more than 1e-5 days
C11_Witness ==
    /\ last.op = "back"
    /\ last.dt = [year |-> 2000, month |-> 2, day |-> 29, hour |-> 23, minute |-> 59,
                  second |-> 59, microsecond |-> 0]
    /\ JdDiff(last.jd, last.back) = SubSec - 1
    /\ JdDiff(last.jd, last.back) * 100000 > TicksPerDay

(***************************************************************************)
(* Claims about the frame, checked under SpecClock and SpecCamera.         *)
(***************************************************************************)
\* C12: a frame run while paused, after at least one earlier frame, steps
\* every body and regenerates the rings with dt_days = 0 and leaves sim_jd,
\* every body (orbit_angle, spin_angle, rotation, position) and every ring
\* (position, vertices) exactly as the previous frame left them.
C12_PausedFrame ==
    [][(frames' = frames + 1 /\ paused /\ frames >= 1) =>
          /\ sim_jd' = sim_jd
          /\ bodies' = bodies
          /\ orbit_rings' = orbit_rings
          /\ planet_rings' = planet_rings]_vars

\* a paused frame with time.dt > 0 run after the clock and the bodies had
\* moved, with the moon on its way round the planet and the path of the
\* planet regenerated
C12_Witness ==
    /\ last.op = "update"
    /\ paused
    /\ last.dt > 0
    /\ frames >= 2
    /\ sim_jd # StartJd
    /\ sim_jd = last.sim_jd
    /\ bodies[3].orbit_angle # 0
    /\ bodies[3].position # bodies[2].position
    /\ orbit_rings[1].position = bodies[1].position
    /\ orbit_rings[2].position = bodies[2].position

\* C13: what a frame leaves shows the order of its steps.  The collision
\* loop corrected the camera exactly when its tentative position penetrated
\* a collider where the previous frame had left it; the bodies stand where
\* the advanced sim_jd puts them; every orbit ring sits on the position its
\* parent was given in this frame with the path of this frame's sim_jd, and
\* the planet ring on its planet's position of this frame.
C13_FrameOrder ==
    last.op = "update" =>
        /\ last.flight.tested => (Penetrated # {} <=> Len(last.flight.list) >= 1)
        /\ ~last.flight.tested => Len(last.flight.list) = 0
        /\ \A h \in DOMAIN last.flight.list :
              Penetrates(last.flight.list[h].from, last.colliders[last.flight.list[h].body])
        /\ bodies[2].position
              = VAdd(bodies[1].position, ElementOffset(Val(bodies[2].elements), sim_jd))
        /\ \A n \in DOMAIN orbit_rings :
              /\ orbit_rings[n].position = bodies[orbit_rings[n].parent].position
              /\ ~IsNone(bodies[orbit_rings[n].body].elements) =>
                    orbit_rings[n].vertices
                      = make_orbit_path_from_elements(
                            Val(bodies[orbit_rings[n].body].elements), sim_jd,
                            RingSegments).vertices
        /\ \A n \in DOMAIN planet_rings :
              planet_rings[n].position = bodies[planet_rings[n].planet].position

\* a frame that corrected the camera against the planet where the previous
\* frame had left it, then moved the planet, and placed the moon's orbit
\* ring on the planet's new position
C13_Witness ==
    /\ last.op = "update"
    /\ last.flight.tested
    /\ Len(last.flight.list) >= 1
    /\ last.flight.list[1].body = EarthIndex
    /\ bodies[EarthIndex].position # last.colliders[EarthIndex].position
    /\ ~Penetrates(last.flight.list[1].from,
                   [position |-> bodies[EarthIndex].position,
                    scale_x |-> bodies[EarthIndex].scale_x])
    /\ orbit_rings[2].position = bodies[EarthIndex].position
    /\ frames >= 2

\* C14: every frame that ends with focus_target set leaves the camera pivot
\* at the target's position as it stands at the end of the frame plus
\* focus_offset.
C14_Rigid ==
    (last.op = "update" /\ focus_target # 0) =>
        camera_pivot = VAdd(bodies[focus_target].position, focus_offset)

\* C15: every body with a parent keeps the clamped orbit_radius, and from
\* construction onward stands no nearer to its parent than the sum of their
\* visual radii (half of scale_x, the diameter of the unit sphere model).
C15_ClearOfParent ==
    \A k \in DOMAIN bodies :
        bodies[k].orbit_parent # 0 =>
            /\ bodies[k].orbit_radius
                  >= bodies[bodies[k].orbit_parent].scale_x + Quot(bodies[k].scale_x * 16, 10)
            /\ ~ShorterThan(VSub(bodies[k].position, bodies[bodies[k].orbit_parent].position),
                            (bodies[bodies[k].orbit_parent].scale_x + bodies[k].scale_x) \div 2)

\* C16: the impact effect fires only in a frame that tested collisions, hit
\* a collider and read explosion_cooldown as 0, and at most once per frame;
\* between two firings at least 0.6 s of time.dt accumulate;
\* explosion_cooldown stays within [0, 0.6]; and a frame whose speed before
\* damping is below COLLISION_SPEED_MIN tests no collider and fires nothing.
C16_Cooldown ==
    /\ 0 <= explosion_cooldown
    /\ explosion_cooldown <= COOLDOWN
    /\ hist.gap >= 0 => hist.gap * (CoolU \div 4) >= COOLDOWN
    /\ last.op = "update" =>
          /\ last.explosions <= 1
          /\ last.explosions = 1 =>
                /\ last.flight.tested
                /\ Len(last.flight.list) >= 1
                /\ last.cooldown = 0
                /\ explosion_cooldown = COOLDOWN
          /\ last.flight.speed < COLLISION_SPEED_MIN =>
                /\ ~last.flight.tested
                /\ Len(last.flight.list) = 0
                /\ last.explosions = 0

\* the second of two firings, in a frame that penetrated two colliders and
\* fired once
C16_Witness ==
    /\ last.op = "update"
    /\ last.explosions = 1
    /\ Len(last.flight.list) >= 2
    /\ hist.explosions = 2
    /\ hist.gap >= 0
    /\ last.flight.speed >= COLLISION_SPEED_MIN

\* C17: every body with a parent comes after it in the list, and after a
\* frame every propagated body stands at the position its parent was given
\* in the same frame plus its own orbital offset.
C17_ParentFirst ==
    /\ \A k \in DOMAIN bodies : bodies[k].orbit_parent < k
    /\ last.op = "update" =>
          \A k \in DOMAIN bodies :
              /\ UsesElements(bodies[k], Some(sim_jd)) =>
                    bodies[k].position
                      = VAdd(bodies[bodies[k].orbit_parent].position,
                             ElementOffset(Val(bodies[k].elements), sim_jd))
              /\ UsesFixedPeriod(bodies[k], Some(sim_jd)) =>
                    bodies[k].position
                      = VAdd(bodies[bodies[k].orbit_parent].position,
                             FixedPeriodOffset(bodies[k], bodies[k].orbit_angle))

\* a frame in which the planet moved and its moon, stepped after it, stands
\* at its offset from the planet's new position
C17_Witness ==
    /\ last.op = "update"
    /\ frames >= 2
    /\ UsesFixedPeriod(bodies[3], Some(sim_jd))
    /\ bodies[3].orbit_parent = EarthIndex
    /\ bodies[EarthIndex].position # last.colliders[EarthIndex].position
    /\ bodies[3].position
          = VAdd(bodies[EarthIndex].position,
                 FixedPeriodOffset(bodies[3], bodies[3].orbit_angle))
    /\ bodies[3].position
          # VAdd(last.colliders[EarthIndex].position,
                 FixedPeriodOffset(bodies[3], bodies[3].orbit_angle))

=============================================================================
